---- MODULE Spec2Model ----
(***************************************************************************)
(* Phom score keeper (src/app/page.tsx): the score engine                  *)
(* computeGamePoints, the session aggregation (gameSummaries,              *)
(* sessionTotals, sessionBalance, funStats / getTopStat) and the session   *)
(* store with its round editing handlers.                                  *)
(***************************************************************************)
EXTENDS Integers, Sequences, FiniteSets, TLC

VARIABLES
    sessions,         \* useState: the session collection (line 333)
    screen,           \* useState: "home", "session" or "summary" (line 334)
    activeSessionId,  \* useState: a session id, 0 for null (line 335)
    gameSummaries,    \* useMemo (lines 447-452)
    sessionTotals,    \* useMemo (lines 458-471)
    funStats,         \* useMemo (lines 475-506)
    steps,            \* the number of user operations so far (counted under Spec),
                      \* of events since the last render (under SpecStale)
    hydrated,         \* useState: the load from storage has run (line 341)
    storage,          \* window.localStorage: the item under STORAGE_KEY
    storageFails,     \* the browser: setItem throws (storage full or denied)
    saveAttempt,      \* the value last handed to setItem (lines 394-397)
    renderedGame,     \* currentGame of the last render, read by the handlers
    engGame,          \* computeGamePoints: the `game` argument
    engAcc,           \* computeGamePoints: the locals `points` and `warnings`
    engPc,            \* computeGamePoints: the position in the function body
    engTotal          \* computeGamePoints: the local `total` (line 209)

storeVars == <<sessions, screen, activeSessionId, gameSummaries, sessionTotals,
               funStats, steps, hydrated, storage, storageFails, saveAttempt,
               renderedGame>>
engVars == <<engGame, engAcc, engPc, engTotal>>
vars == <<sessions, screen, activeSessionId, gameSummaries, sessionTotals,
          funStats, steps, hydrated, storage, storageFails, saveAttempt,
          renderedGame, engGame, engAcc, engPc, engTotal>>

(***************************************************************************)
(* Bounds of the model.                                                    *)
(***************************************************************************)
\* longest `chay` list of a round handed to the engine
MaxChay == 3
\* longest `anChot` list of a round handed to the engine
MaxAnChot == 2
\* most sessions in the store
MaxSessions == 2
\* most rounds in a session
MaxGames == 2
\* most user operations in a run of the store
MaxSteps == 5
MaxPending == 2

(***************************************************************************)
(* Types (lines 17-48).                                                    *)
(***************************************************************************)
PlacementKey == {"first", "second", "third", "fourth"}
PlacementKeys == <<"first", "second", "third", "fourth">>
PlayerIds == <<"p1", "p2", "p3", "p4">>
IdSet == {PlayerIds[i] : i \in DOMAIN PlayerIds}
\* a placement slot, or an endpoint of a transfer: a player id or the empty string
Slot == IdSet \cup {""}

Range(seq) == {seq[i] : i \in DOMAIN seq}

\* the warnings of computeGamePoints (ASCII transliterations of the literals)
WarnInvalidTransfer == "Chuyen diem chua hop le"
WarnNoUPlayer == "Chua chon nguoi U"
WarnWinnerRequired == "Can chon nguoi thang de tinh chay"
WarnWinnerChay == "Nguoi thang khong the bi chay"
WarnMissingSecond == "Thieu nguoi ve nhi"
WarnMissingThird == "Thieu nguoi ve ba"
WarnRankingIncomplete == "Chua du xep hang 1-4"

DefaultName(index) == <<"Nguoi choi 1", "Nguoi choi 2", "Nguoi choi 3", "Nguoi choi 4">>[index]

\* String.prototype.trim on the name inputs of the model
Trim(s) == IF s = " " THEN "" ELSE IF s = " An " THEN "An" ELSE s

createPlayers(names) ==
    [index \in DOMAIN PlayerIds |->
        [id |-> PlayerIds[index],
         name |-> IF Trim(names[index]) # "" THEN Trim(names[index])
                  ELSE DefaultName(index)]]

createGame(id) ==
    [id |-> id,
     u |-> FALSE,
     placements |-> [key \in PlacementKey |-> ""],
     anChot |-> <<>>,
     chay |-> <<>>]

(***************************************************************************)
(* computeGamePoints (lines 122-212), statement by statement.  acc is the  *)
(* pair of locals [points, warnings].                                      *)
(***************************************************************************)
\* lines 123-126
InitialAcc(players) ==
    [points |-> [id \in {players[i].id : i \in DOMAIN players} |-> 0],
     warnings |-> <<>>]

\* applyTransfer without the from === to test
applyTransferNoSelfCheck(acc, transfer) ==
    IF transfer.from = "" \/ transfer.to = ""
    THEN [acc EXCEPT !.warnings = Append(@, WarnInvalidTransfer)]
    ELSE LET debited == [acc.points EXCEPT ![transfer.from] = @ - transfer.points]
         IN  [acc EXCEPT !.points = [debited EXCEPT ![transfer.to] = @ + transfer.points]]

\* lines 128-135
applyTransfer(acc, transfer) ==
    IF transfer.from = "" \/ transfer.to = "" \/ transfer.from = transfer.to
    THEN [acc EXCEPT !.warnings = Append(@, WarnInvalidTransfer)]
    ELSE LET debited == [acc.points EXCEPT ![transfer.from] = @ - transfer.points]
         IN  [acc EXCEPT !.points = [debited EXCEPT ![transfer.to] = @ + transfer.points]]

\* the self-win branch letting the player in slot second off
SelfWinBranchSparesSecond(acc, game, players) ==
    LET winner == game.placements.first
    IN  IF winner = ""
        THEN [acc EXCEPT !.warnings = Append(@, WarnNoUPlayer)]
        ELSE [acc EXCEPT !.points =
                [id \in DOMAIN acc.points |->
                    IF id = winner THEN 15
                    ELSE IF id = game.placements.second THEN 0 ELSE -5]]

\* lines 137-145
SelfWinBranch(acc, game, players) ==
    LET winner == game.placements.first
    IN  IF winner = ""
        THEN [acc EXCEPT !.warnings = Append(@, WarnNoUPlayer)]
        ELSE [acc EXCEPT !.points =
                [id \in DOMAIN acc.points |->
                    IF id \in {players[i].id : i \in DOMAIN players}
                    THEN (IF id = winner THEN 15 ELSE -5)
                    ELSE acc.points[id]]]

\* line 148: new Set(game.chay.map(from).filter(Boolean)), in insertion order
RECURSIVE ChaySetUpTo(_, _)
ChaySetUpTo(chay, n) ==
    IF n = 0 THEN <<>>
    ELSE LET prev == ChaySetUpTo(chay, n - 1)
             from == chay[n].from
         IN  IF from = "" \/ from \in Range(prev) THEN prev ELSE Append(prev, from)

chaySetOf(game) == ChaySetUpTo(game.chay, Len(game.chay))

\* line 149
hasChay(game) == Len(chaySetOf(game)) > 0

\* lines 157-163: chaySet.forEach
RECURSIVE ChayPaymentsUpTo(_, _, _, _)
ChayPaymentsUpTo(points, chaySet, winner, n) ==
    IF n = 0 THEN points
    ELSE LET prev == ChayPaymentsUpTo(points, chaySet, winner, n - 1)
             playerId == chaySet[n]
         IN  IF playerId = winner THEN prev
             ELSE LET debited == [prev EXCEPT ![playerId] = @ - 4]
                  IN  [debited EXCEPT ![winner] = @ + 4]

\* the burn payments taken once per burn entry instead of once per player
RECURSIVE ChayPaymentsPerEntryUpTo(_, _, _, _)
ChayPaymentsPerEntryUpTo(points, chay, winner, n) ==
    IF n = 0 THEN points
    ELSE LET prev == ChayPaymentsPerEntryUpTo(points, chay, winner, n - 1)
             playerId == chay[n].from
         IN  IF playerId = "" \/ playerId = winner THEN prev
             ELSE LET debited == [prev EXCEPT ![playerId] = @ - 4]
                  IN  [debited EXCEPT ![winner] = @ + 4]

ChayPaymentsPerEntry(acc, game) ==
    [acc EXCEPT !.points =
        ChayPaymentsPerEntryUpTo(acc.points, game.chay, game.placements.first,
                                 Len(game.chay))]

\* lines 157-163
ChayPayments(acc, game) ==
    LET chaySet == chaySetOf(game)
    IN  [acc EXCEPT !.points =
            ChayPaymentsUpTo(acc.points, chaySet, game.placements.first, Len(chaySet))]

\* the second-place bonus without the chaySet test
SecondBonusFromBurned(acc, game) ==
    LET winner == game.placements.first
        second == game.placements.second
    IN  IF second # "" /\ second # winner
        THEN LET debited == [acc.points EXCEPT ![second] = @ - 1]
             IN  [acc EXCEPT !.points = [debited EXCEPT ![winner] = @ + 1]]
        ELSE acc

\* lines 168-171
SecondBonus(acc, game) ==
    LET winner == game.placements.first
        second == game.placements.second
    IN  IF second # "" /\ second \notin Range(chaySetOf(game)) /\ second # winner
        THEN LET debited == [acc.points EXCEPT ![second] = @ - 1]
             IN  [acc EXCEPT !.points = [debited EXCEPT ![winner] = @ + 1]]
        ELSE acc

\* the third-place bonus crediting the winner 1 instead of 2
ThirdBonusShortCredit(acc, game) ==
    LET winner == game.placements.first
        second == game.placements.second
        third == game.placements.third
    IN  IF third # "" /\ third \notin Range(chaySetOf(game)) /\ third # winner
           /\ third # second
        THEN LET debited == [acc.points EXCEPT ![third] = @ - 2]
             IN  [acc EXCEPT !.points = [debited EXCEPT ![winner] = @ + 1]]
        ELSE acc

\* lines 172-175
ThirdBonus(acc, game) ==
    LET winner == game.placements.first
        second == game.placements.second
        third == game.placements.third
    IN  IF third # "" /\ third \notin Range(chaySetOf(game)) /\ third # winner
           /\ third # second
        THEN LET debited == [acc.points EXCEPT ![third] = @ - 2]
             IN  [acc EXCEPT !.points = [debited EXCEPT ![winner] = @ + 2]]
        ELSE acc

\* lines 165-175
PlaceBonuses(acc, game) == ThirdBonus(SecondBonus(acc, game), game)

\* line 177
nonChayOf(game, players) ==
    SelectSeq([i \in DOMAIN players |-> players[i].id],
              LAMBDA id : id \notin Range(chaySetOf(game)))

\* the missing-second test asking for 3 non-burned players
MissingSecondWarningAtThree(acc, game, players) ==
    LET winner == game.placements.first
        second == game.placements.second
    IN  IF Len(nonChayOf(game, players)) >= 3
           /\ (second = "" \/ second = winner \/ second \in Range(chaySetOf(game)))
        THEN [acc EXCEPT !.warnings = Append(@, WarnMissingSecond)]
        ELSE acc

\* lines 178-180
MissingSecondWarning(acc, game, players) ==
    LET winner == game.placements.first
        second == game.placements.second
    IN  IF Len(nonChayOf(game, players)) >= 2
           /\ (second = "" \/ second = winner \/ second \in Range(chaySetOf(game)))
        THEN [acc EXCEPT !.warnings = Append(@, WarnMissingSecond)]
        ELSE acc

\* lines 181-186
MissingThirdWarning(acc, game, players) ==
    LET winner == game.placements.first
        second == game.placements.second
        third == game.placements.third
    IN  IF Len(nonChayOf(game, players)) >= 3
           /\ (third = "" \/ third = winner \/ third = second
               \/ third \in Range(chaySetOf(game)))
        THEN [acc EXCEPT !.warnings = Append(@, WarnMissingThird)]
        ELSE acc

\* lines 177-186
CompletenessWarnings(acc, game, players) ==
    MissingThirdWarning(MissingSecondWarning(acc, game, players), game, players)

\* the burn branch skipping a burned winner's round without a warning
ChayBranchSilentOnBurnedWinner(acc, game, players) ==
    LET winner == game.placements.first
    IN  IF winner = ""
        THEN [acc EXCEPT !.warnings = Append(@, WarnWinnerRequired)]
        ELSE IF winner \in Range(chaySetOf(game))
        THEN acc
        ELSE CompletenessWarnings(PlaceBonuses(ChayPayments(acc, game), game),
                                  game, players)

\* the burn branch falling back to the ranking tariff when its guards fail
ChayBranchFallsBackToRanking(acc, game, players) ==
    LET winner == game.placements.first
        picks == {game.placements[key] : key \in PlacementKey} \ {""}
    IN  IF winner = "" \/ winner \in Range(chaySetOf(game))
        THEN (IF Cardinality(picks) = 4
              THEN [acc EXCEPT !.points =
                      [id \in DOMAIN acc.points |->
                          IF id = game.placements.first THEN 6
                          ELSE IF id = game.placements.second THEN -1
                          ELSE IF id = game.placements.third THEN -2 ELSE -3]]
              ELSE [acc EXCEPT !.warnings = Append(@, WarnWinnerRequired)])
        ELSE CompletenessWarnings(PlaceBonuses(ChayPayments(acc, game), game),
                                  game, players)

\* lines 151-187
ChayBranch(acc, game, players) ==
    LET winner == game.placements.first
    IN  IF winner = ""
        THEN [acc EXCEPT !.warnings = Append(@, WarnWinnerRequired)]
        ELSE IF winner \in Range(chaySetOf(game))
        THEN [acc EXCEPT !.warnings = Append(@, WarnWinnerChay)]
        ELSE CompletenessWarnings(PlaceBonuses(ChayPayments(acc, game), game),
                                  game, players)

\* the ranking tariff with the third and fourth amounts exchanged
RankingBranchSwapped(acc, game) ==
    LET picks == [i \in 1..4 |-> game.placements[PlacementKeys[i]]]
        unique == Range(picks) \ {""}
    IN  IF Cardinality(unique) # 4
        THEN [acc EXCEPT !.warnings = Append(@, WarnRankingIncomplete)]
        ELSE LET p1 == [acc.points EXCEPT ![game.placements.first] = @ + 6]
                 p2 == [p1 EXCEPT ![game.placements.second] = @ - 1]
                 p3 == [p2 EXCEPT ![game.placements.third] = @ - 3]
             IN  [acc EXCEPT !.points = [p3 EXCEPT ![game.placements.fourth] = @ - 2]]

\* the ranking with 5 instead of 6 for the winner
RankingBranchWinnerFive(acc, game) ==
    LET picks == [i \in 1..4 |-> game.placements[PlacementKeys[i]]]
        unique == Range(picks) \ {""}
    IN  IF Cardinality(unique) # 4
        THEN [acc EXCEPT !.warnings = Append(@, WarnRankingIncomplete)]
        ELSE LET p1 == [acc.points EXCEPT ![game.placements.first] = @ + 5]
                 p2 == [p1 EXCEPT ![game.placements.second] = @ - 1]
                 p3 == [p2 EXCEPT ![game.placements.third] = @ - 2]
             IN  [acc EXCEPT !.points = [p3 EXCEPT ![game.placements.fourth] = @ - 3]]

\* lines 189-203
RankingBranch(acc, game) ==
    LET picks == [i \in 1..4 |-> game.placements[PlacementKeys[i]]]
        unique == Range(picks) \ {""}
    IN  IF Cardinality(unique) # 4
        THEN [acc EXCEPT !.warnings = Append(@, WarnRankingIncomplete)]
        ELSE LET p1 == [acc.points EXCEPT ![game.placements.first] = @ + 6]
                 p2 == [p1 EXCEPT ![game.placements.second] = @ - 1]
                 p3 == [p2 EXCEPT ![game.placements.third] = @ - 2]
             IN  [acc EXCEPT !.points = [p3 EXCEPT ![game.placements.fourth] = @ - 3]]

\* lines 137-205: the mode-specific part
ModeScore(acc, game, players) ==
    IF game.u THEN SelfWinBranch(acc, game, players)
    ELSE IF hasChay(game) THEN ChayBranch(acc, game, players)
    ELSE RankingBranch(acc, game)

\* line 207: game.anChot.forEach(applyTransfer)
RECURSIVE ApplyTransfersUpTo(_, _, _)
ApplyTransfersUpTo(acc, anChot, n) ==
    IF n = 0 THEN acc
    ELSE applyTransfer(ApplyTransfersUpTo(acc, anChot, n - 1), anChot[n])

\* the manual transfers skipped when the mode-specific part warned
ManualTransfersUnlessWarned(acc, game) ==
    IF acc.warnings # <<>> THEN acc
    ELSE ApplyTransfersUpTo(acc, game.anChot, Len(game.anChot))

\* line 207
ManualTransfers(acc, game) == ApplyTransfersUpTo(acc, game.anChot, Len(game.anChot))

\* line 209: Object.values(points).reduce(sum)
RECURSIVE SumOver(_, _)
SumOver(f, S) ==
    IF S = {} THEN 0
    ELSE LET x == CHOOSE y \in S : TRUE
         IN  f[x] + SumOver(f, S \ {x})

totalOf(points) == SumOver(points, DOMAIN points)

\* lines 122-212
computeGamePoints(game, players) ==
    LET acc == ManualTransfers(ModeScore(InitialAcc(players), game, players), game)
    IN  [points |-> acc.points, total |-> totalOf(acc.points), warnings |-> acc.warnings]

(***************************************************************************)
(* The session store: constructors (lines 70-120).                         *)
(***************************************************************************)
\* lines 70-73: makeId, an id that no object of `used` carries
makeId(used) == CHOOSE n \in 1..(Cardinality(used) + 1) : n \notin used

IdsOf(seq) == {seq[i].id : i \in DOMAIN seq}

\* lines 94-101 (name is the session's number, createdAt is never read)
createSession(index, names, id) ==
    [id |-> id,
     name |-> index,
     players |-> createPlayers(names),
     games |-> <<createGame(makeId({}))>>,
     currentGameIndex |-> 0]

\* lines 105-106
getDistinctPlayer(players, exclude) ==
    LET others == SelectSeq(players, LAMBDA player : player.id # exclude)
    IN  IF others # <<>> THEN others[1].id ELSE exclude

\* lines 108-120
createTransfer(players, game) ==
    LET winner == IF game.placements.first # "" THEN game.placements.first
                  ELSE players[1].id
        from == IF game.placements.fourth # "" THEN game.placements.fourth
                ELSE players[4].id
        to == IF from = winner THEN getDistinctPlayer(players, from) ELSE winner
    IN  [id |-> makeId(IdsOf(game.anChot)), from |-> from, to |-> to, points |-> 4]

(***************************************************************************)
(* The values derived at every render (lines 403, 443-506).                *)
(***************************************************************************)
\* line 403: sessions.find(...) ?? null, as a sequence of at most one session
activeSessionOf(ss, id) ==
    LET found == SelectSeq(ss, LAMBDA session : session.id = id)
    IN  IF found = <<>> THEN <<>> ELSE <<found[1]>>

\* lines 443-445
currentGameOf(active) == active[1].games[active[1].currentGameIndex + 1]

\* lines 447-452
gameSummariesOf(active) ==
    IF active = <<>> THEN <<>>
    ELSE [i \in DOMAIN active[1].games |->
            computeGamePoints(active[1].games[i], active[1].players)]

\* lines 465-469, with `=` where the code has `+=`
RECURSIVE sessionTotalsLastOnlyUpTo(_, _, _)
sessionTotalsLastOnlyUpTo(players, summaries, n) ==
    IF n = 0 THEN [id \in {players[i].id : i \in DOMAIN players} |-> 0]
    ELSE LET totals == sessionTotalsLastOnlyUpTo(players, summaries, n - 1)
         IN  [id \in DOMAIN totals |-> summaries[n].points[id]]

\* lines 462-469: gameSummaries.forEach, players.forEach
RECURSIVE sessionTotalsUpTo(_, _, _)
sessionTotalsUpTo(players, summaries, n) ==
    IF n = 0 THEN [id \in {players[i].id : i \in DOMAIN players} |-> 0]
    ELSE LET totals == sessionTotalsUpTo(players, summaries, n - 1)
         IN  [id \in DOMAIN totals |->
                totals[id] + (IF id \in DOMAIN summaries[n].points
                              THEN summaries[n].points[id] ELSE 0)]

\* sessionTotals keeping only the last round's points
sessionTotalsOfLastOnly(active, summaries) ==
    IF active = <<>> THEN <<>>
    ELSE sessionTotalsLastOnlyUpTo(active[1].players, summaries, Len(summaries))

\* lines 458-471
sessionTotalsOf(active, summaries) ==
    IF active = <<>> THEN <<>>
    ELSE sessionTotalsUpTo(active[1].players, summaries, Len(summaries))

\* line 473
sessionBalanceOf(totals) == SumOver(totals, DOMAIN totals)

NoneYet == "Chua co"

\* Math.max(0, ...Object.values(counts))
MaxCount(counts) ==
    CHOOSE m \in {0} \cup {counts[id] : id \in DOMAIN counts} :
        \A id \in DOMAIN counts : counts[id] <= m

\* getTopStat naming only the first player that has the maximum
getTopStatFirstOnly(players, counts) ==
    LET max == MaxCount(counts)
    IN  IF max = 0 THEN [names |-> <<NoneYet>>, count |-> 0]
        ELSE LET top == SelectSeq(players, LAMBDA player : counts[player.id] = max)
             IN  [names |-> <<top[1].name>>, count |-> max]

\* lines 320-330 (the keys of counts are in the order of players, line 482)
getTopStat(players, counts) ==
    LET max == MaxCount(counts)
    IN  IF max = 0 THEN [names |-> <<NoneYet>>, count |-> 0]
        ELSE LET top == SelectSeq(players, LAMBDA player : counts[player.id] = max)
             IN  [names |-> [i \in DOMAIN top |-> top[i].name], count |-> max]

\* lines 490-494 and 495-499: one forEach over the entries of a list
RECURSIVE countFromUpTo(_, _, _)
countFromUpTo(counts, list, n) ==
    IF n = 0 THEN counts
    ELSE LET prev == countFromUpTo(counts, list, n - 1)
             from == list[n].from
         IN  IF from # "" THEN [prev EXCEPT ![from] = @ + 1] ELSE prev

\* lines 489-500: activeSession.games.forEach
RECURSIVE chayCountsUpTo(_, _, _)
chayCountsUpTo(counts, games, n) ==
    IF n = 0 THEN counts
    ELSE countFromUpTo(chayCountsUpTo(counts, games, n - 1),
                       games[n].chay, Len(games[n].chay))

RECURSIVE anChotCountsUpTo(_, _, _)
anChotCountsUpTo(counts, games, n) ==
    IF n = 0 THEN counts
    ELSE countFromUpTo(anChotCountsUpTo(counts, games, n - 1),
                       games[n].anChot, Len(games[n].anChot))

\* lines 475-506
funStatsOf(active) ==
    IF active = <<>>
    THEN [mostChay |-> [names |-> <<NoneYet>>, count |-> 0],
          mostAnChot |-> [names |-> <<NoneYet>>, count |-> 0]]
    ELSE LET players == active[1].players
             games == active[1].games
             zero == [id \in {players[i].id : i \in DOMAIN players} |-> 0]
         IN  [mostChay |-> getTopStat(players, chayCountsUpTo(zero, games, Len(games))),
              mostAnChot |-> getTopStat(players, anChotCountsUpTo(zero, games, Len(games)))]

\* lines 508-511
canGoPrev(active) == IF active # <<>> THEN active[1].currentGameIndex > 0 ELSE FALSE
canGoNext(active) ==
    IF active # <<>> THEN active[1].currentGameIndex < Len(active[1].games) - 1 ELSE FALSE

(***************************************************************************)
(* The session store: the updaters of the handlers (lines 405-617 and the  *)
(* inline handlers of the session screen).                                 *)
(***************************************************************************)
\* lines 405-407; `updated` is the updater applied to the session that has
\* this id (makeId gives every session its own id)
updateSession(ss, id, updated) ==
    [i \in DOMAIN ss |-> IF ss[i].id = id THEN updated ELSE ss[i]]

\* updateGame replacing every round of the session
updateGameInEveryRound(session, gameId, updated) ==
    [session EXCEPT !.games = [i \in DOMAIN session.games |-> updated]]

\* lines 517-520: the session updater of updateGame; `updated` is the game
\* updater applied to the game that has this id
updateGameIn(session, gameId, updated) ==
    [session EXCEPT !.games =
        [i \in DOMAIN session.games |->
            IF session.games[i].id = gameId THEN updated ELSE session.games[i]]]

\* saveEditSession taking a blank input as the new name
renamePlayersBlankErases(session, editNames) ==
    [session EXCEPT !.players =
        [index \in DOMAIN session.players |->
            [session.players[index] EXCEPT !.name = Trim(editNames[index])]]]

\* lines 428-435: the session updater of saveEditSession
renamePlayers(session, editNames) ==
    [session EXCEPT !.players =
        [index \in DOMAIN session.players |->
            [session.players[index] EXCEPT !.name =
                IF Trim(editNames[index]) # "" THEN Trim(editNames[index])
                ELSE session.players[index].name]]]

\* lines 527-534: the session updater of addGame
addGameTo(session) ==
    LET games == Append(session.games, createGame(makeId(IdsOf(session.games))))
    IN  [session EXCEPT !.games = games, !.currentGameIndex = Len(games) - 1]

Min(a, b) == IF a < b THEN a ELSE b
Max(a, b) == IF a > b THEN a ELSE b

\* findIndex: the 0-based index of the first game with the id, or -1
findIndex(games, gameId) ==
    IF \E i \in DOMAIN games : games[i].id = gameId
    THEN (CHOOSE i \in DOMAIN games :
             /\ games[i].id = gameId
             /\ \A j \in DOMAIN games : games[j].id = gameId => i <= j) - 1
    ELSE -1

\* removeGame without the cursor adjustment of lines 547-555
removeGameFromKeepsCursor(session, gameId) ==
    IF Len(session.games) = 1 THEN session
    ELSE [session EXCEPT
             !.games = SelectSeq(session.games, LAMBDA game : game.id # gameId)]

\* lines 541-561: the session updater of removeGame
removeGameFrom(session, gameId) ==
    IF Len(session.games) = 1 THEN session
    ELSE LET removedIndex == findIndex(session.games, gameId)
             nextGames == SelectSeq(session.games, LAMBDA game : game.id # gameId)
             current == session.currentGameIndex
             nextIndex == IF removedIndex # -1
                          THEN (IF current > removedIndex THEN current - 1
                                ELSE IF current = removedIndex THEN Max(0, current - 1)
                                ELSE current)
                          ELSE current
         IN  [session EXCEPT !.games = nextGames,
                             !.currentGameIndex = Min(nextIndex, Len(nextGames) - 1)]

\* lines 1228-1232: the session updater of the reset button
resetGames(session) ==
    [session EXCEPT !.games = <<createGame(makeId({}))>>, !.currentGameIndex = 0]

\* lines 1250-1253 and 1267-1273
goPrev(session) ==
    [session EXCEPT !.currentGameIndex = Max(0, session.currentGameIndex - 1)]
goNext(session) ==
    [session EXCEPT !.currentGameIndex =
        Min(Len(session.games) - 1, session.currentGameIndex + 1)]

\* handleDropPlacement leaving the burn entry of the dropped player in place
dropPlacementKeepsBurn(current, key, playerId) ==
    LET placements == [placementKey \in PlacementKey |->
                          IF placementKey = key THEN playerId
                          ELSE IF current.placements[placementKey] = playerId THEN ""
                          ELSE current.placements[placementKey]]
        updatedChay == IF key = "first"
                       THEN [i \in DOMAIN current.chay |->
                                [current.chay[i] EXCEPT !.to = playerId]]
                       ELSE current.chay
    IN  [current EXCEPT !.placements = placements, !.chay = updatedChay]

\* handleDropPlacement without re-targeting the burn entries
dropPlacementNoRetarget(current, key, playerId) ==
    LET placements == [placementKey \in PlacementKey |->
                          IF placementKey = key THEN playerId
                          ELSE IF current.placements[placementKey] = playerId THEN ""
                          ELSE current.placements[placementKey]]
        chay == SelectSeq(current.chay, LAMBDA item : item.from # playerId)
    IN  [current EXCEPT !.placements = placements, !.chay = chay]

\* lines 568-580: the game updater of handleDropPlacement
dropPlacement(current, key, playerId) ==
    LET placements == [placementKey \in PlacementKey |->
                          IF placementKey = key THEN playerId
                          ELSE IF current.placements[placementKey] = playerId THEN ""
                          ELSE current.placements[placementKey]]
        chay == SelectSeq(current.chay, LAMBDA item : item.from # playerId)
        updatedChay == IF key = "first"
                       THEN [i \in DOMAIN chay |-> [chay[i] EXCEPT !.to = playerId]]
                       ELSE chay
    IN  [current EXCEPT !.placements = placements, !.chay = updatedChay]

\* handleDropChay leaving the burned player in the slot it held
dropChayKeepsSlot(current, playerId) ==
    IF \E i \in DOMAIN current.chay : current.chay[i].from = playerId
    THEN current
    ELSE [current EXCEPT !.chay =
            Append(current.chay,
                   [id |-> makeId(IdsOf(current.chay)), from |-> playerId,
                    to |-> current.placements.first, points |-> 4])]

\* handleDropChay without the early return of lines 588-590
dropChayAgain(current, playerId) ==
    LET placements == [placementKey \in PlacementKey |->
                          IF placementKey # "first"
                             /\ current.placements[placementKey] = playerId
                          THEN "" ELSE current.placements[placementKey]]
        nextChay == Append(current.chay,
                           [id |-> makeId(IdsOf(current.chay)), from |-> playerId,
                            to |-> current.placements.first, points |-> 4])
    IN  [current EXCEPT !.placements = placements, !.chay = nextChay]

\* lines 587-602: the game updater of handleDropChay
dropChay(current, playerId) ==
    IF \E i \in DOMAIN current.chay : current.chay[i].from = playerId
    THEN current
    ELSE LET placements == [placementKey \in PlacementKey |->
                               IF placementKey # "first"
                                  /\ current.placements[placementKey] = playerId
                               THEN "" ELSE current.placements[placementKey]]
             nextChay == Append(current.chay,
                                [id |-> makeId(IdsOf(current.chay)), from |-> playerId,
                                 to |-> current.placements.first, points |-> 4])
         IN  [current EXCEPT !.placements = placements, !.chay = nextChay]

\* lines 583-603: handleDropChay, its guard read from the rendered game
handleDropChay(game, current, playerId) ==
    IF game.u \/ playerId = game.placements.first THEN current
    ELSE dropChay(current, playerId)

\* lines 605-610
clearPlacement(current, key) == [current EXCEPT !.placements[key] = ""]

\* lines 612-617
removeChayPlayer(current, playerId) ==
    [current EXCEPT !.chay = SelectSeq(current.chay, LAMBDA item : item.from # playerId)]

\* the self-win checkbox keeping the burn entries
toggleUKeepsChay(current, checked) == [current EXCEPT !.u = checked]

\* lines 825-831: the self-win checkbox
toggleU(current, checked) ==
    [current EXCEPT !.u = checked, !.chay = IF checked THEN <<>> ELSE current.chay]

\* lines 850-858: the self-win winner select
selectWinner(current, value) == [current EXCEPT !.placements.first = value]

\* lines 987-992
addAnChot(current, players) ==
    [current EXCEPT !.anChot = Append(current.anChot, createTransfer(players, current))]

\* lines 1020-1029 and 1057-1066
setAnChotFrom(current, transferId, value) ==
    [current EXCEPT !.anChot =
        [i \in DOMAIN current.anChot |->
            IF current.anChot[i].id = transferId
            THEN [current.anChot[i] EXCEPT !.from = value] ELSE current.anChot[i]]]
setAnChotTo(current, transferId, value) ==
    [current EXCEPT !.anChot =
        [i \in DOMAIN current.anChot |->
            IF current.anChot[i].id = transferId
            THEN [current.anChot[i] EXCEPT !.to = value] ELSE current.anChot[i]]]

\* lines 1092-1097
deleteAnChot(current, transferId) ==
    [current EXCEPT !.anChot =
        SelectSeq(current.anChot, LAMBDA item : item.id # transferId)]

(***************************************************************************)
(* The store as a state machine: one action per user operation, followed   *)
(* by the render that recomputes the memoised values.                      *)
(***************************************************************************)
\* the name inputs of the forms
NameVectors == {<<"", "", "", "">>, <<" An ", "", " ", " An ">>}
NameInputs == {" ", " An "}

(***************************************************************************)
(* Durable storage (lines 348-401).  The item under STORAGE_KEY is a      *)
(* text: none, a text that is not JSON, or the JSON text of a value.       *)
(***************************************************************************)
\* getItem returns null
NoItem == [kind |-> "none"]
\* a text JSON.parse throws on
CorruptedItem == [kind |-> "corrupted"]
\* JSON.stringify: the text of a value built from objects, arrays, strings,
\* numbers, booleans and null, none of which it drops or changes
stringify(value) == [kind |-> "json", value |-> value]

\* line 396: the object the save effect writes
Memory(ss, id, scr) == [sessions |-> ss, activeSessionId |-> id, screen |-> scr]

\* lines 352-373: the state the load effect sets from the stored text; a key
\* the parsed object lacks, a missing item and a text that does not parse
\* leave the state as it is
loadEffect(raw, memory) ==
    IF raw.kind # "json" THEN memory
    ELSE LET parsed == raw.value
         IN  [sessions |-> IF "sessions" \in DOMAIN parsed THEN parsed.sessions
                           ELSE memory.sessions,
              activeSessionId |-> IF "activeSessionId" \in DOMAIN parsed
                                  THEN parsed.activeSessionId
                                  ELSE memory.activeSessionId,
              screen |-> IF "screen" \in DOMAIN parsed THEN parsed.screen
                         ELSE memory.screen]

\* lines 379-387: an active session id without its session is dropped
consistencyEffect(memory, isHydrated) ==
    IF ~isHydrated THEN memory
    ELSE IF /\ memory.activeSessionId # 0
            /\ activeSessionOf(memory.sessions, memory.activeSessionId) = <<>>
         THEN [memory EXCEPT !.activeSessionId = 0, !.screen = "home"]
         ELSE memory

\* the save effect without the hydrated test of line 390
saveEffectBeforeLoad(store, memory, isHydrated, fails) ==
    IF fails THEN [store EXCEPT !.attempt = stringify(memory)]
    ELSE [item |-> stringify(memory), attempt |-> stringify(memory)]

\* the save effect with a catch block that removes the item
saveEffectClearsOnFailure(store, memory, isHydrated, fails) ==
    IF ~isHydrated THEN store
    ELSE IF fails THEN [item |-> NoItem, attempt |-> stringify(memory)]
    ELSE [item |-> stringify(memory), attempt |-> stringify(memory)]

\* lines 389-401: the save effect on the pair [item, attempt] of the stored
\* item and the value last handed to setItem; a setItem that throws leaves
\* the item as it was and the exception is ignored
saveEffect(store, memory, isHydrated, fails) ==
    IF ~isHydrated THEN store
    ELSE IF fails THEN [store EXCEPT !.attempt = stringify(memory)]
    ELSE [item |-> stringify(memory), attempt |-> stringify(memory)]

\* the currentGame of a render (lines 403, 443-445), <<>> for null
renderedGameOf(ss, id) ==
    LET active == activeSessionOf(ss, id)
    IN  IF active = <<>> THEN <<>> ELSE <<currentGameOf(active)>>

\* the page mounted in a browser whose storage held no item and accepts
\* writes: the load found nothing and the first save wrote the empty state
StoreInit ==
    /\ sessions = <<>>
    /\ screen = "home"
    /\ activeSessionId = 0
    /\ gameSummaries = <<>>
    /\ sessionTotals = <<>>
    /\ funStats = funStatsOf(<<>>)
    /\ steps = 0
    /\ hydrated = TRUE
    /\ storageFails = FALSE
    /\ storage = stringify(Memory(<<>>, 0, "home"))
    /\ saveAttempt = stringify(Memory(<<>>, 0, "home"))
    /\ renderedGame = <<>>

\* the render after a state change: each useMemo recomputes when one of its
\* dependencies changed
Render ==
    LET before == activeSessionOf(sessions, activeSessionId)
        active == activeSessionOf(sessions', activeSessionId')
    IN  /\ gameSummaries' = IF active # before THEN gameSummariesOf(active)
                            ELSE gameSummaries
        /\ sessionTotals' = IF active # before \/ gameSummaries' # gameSummaries
                            THEN sessionTotalsOf(active, gameSummaries')
                            ELSE sessionTotals
        /\ funStats' = IF active # before THEN funStatsOf(active) ELSE funStats
        /\ renderedGame' = renderedGameOf(sessions', activeSessionId')

\* lines 379-401: the effects after the render that follows a handler.  The
\* save effect runs when one of its dependencies changed: setsSessions says
\* that the handler called setSessions, which always installs a new array.
\* The consistency effect finds nothing to do here: the handlers activate
\* only sessions of the collection and never remove one.
Effects(setsSessions) ==
    LET before == Memory(sessions, activeSessionId, screen)
        memory == Memory(sessions', activeSessionId', screen')
        saved == saveEffect([item |-> storage, attempt |-> saveAttempt],
                            memory, hydrated, storageFails)
    IN  /\ UNCHANGED <<hydrated, storageFails>>
        /\ storage' = IF setsSessions \/ memory # before THEN saved.item ELSE storage
        /\ saveAttempt' = IF setsSessions \/ memory # before THEN saved.attempt
                          ELSE saveAttempt

\* the render after a handler and the effects after the render
Commit(setsSessions) == Render /\ Effects(setsSessions)

Step ==
    /\ steps < MaxSteps
    /\ steps' = steps + 1

Active == activeSessionOf(sessions, activeSessionId)

\* line 809: the session screen is rendered
OnSessionScreen == screen = "session" /\ Active # <<>>

CurrentGame == currentGameOf(Active)

\* lines 513-521: updateGame on the current game of the active session
UpdateCurrentGame(updated) ==
    /\ sessions' = updateSession(sessions, Active[1].id,
                       updateGameIn(Active[1], CurrentGame.id, updated))
    /\ UNCHANGED <<screen, activeSessionId>>

\* lines 409-416
CreateNewSession ==
    /\ screen = "home"
    /\ Len(sessions) < MaxSessions
    /\ \E names \in NameVectors :
          LET session == createSession(Len(sessions) + 1, names, makeId(IdsOf(sessions)))
          IN  /\ sessions' = Append(sessions, session)
              /\ activeSessionId' = session.id
    /\ screen' = "session"
    /\ Step /\ Commit(TRUE) /\ UNCHANGED engVars

\* lines 418-421
OpenSession ==
    /\ screen = "home"
    /\ \E i \in DOMAIN sessions : activeSessionId' = sessions[i].id
    /\ screen' = "session"
    /\ UNCHANGED sessions
    /\ Step /\ Commit(FALSE) /\ UNCHANGED engVars

\* lines 428-437, with the form filled in before (lines 423-426, 731-737)
SaveEditSession ==
    /\ screen = "home"
    /\ \E i \in DOMAIN sessions, index \in 1..4, input \in NameInputs :
          LET editNames == [k \in 1..4 |-> IF k = index THEN input
                                           ELSE sessions[i].players[k].name]
          IN  sessions' = updateSession(sessions, sessions[i].id,
                              renamePlayers(sessions[i], editNames))
    /\ UNCHANGED <<screen, activeSessionId>>
    /\ Step /\ Commit(TRUE) /\ UNCHANGED engVars

\* lines 1310-1341: the menu
MenuGo ==
    /\ screen # "home"
    /\ \E target \in {"home", "session", "summary"} :
          /\ target = "summary" => Active # <<>>
          /\ screen' = target
    /\ UNCHANGED <<sessions, activeSessionId>>
    /\ Step /\ Commit(FALSE) /\ UNCHANGED engVars

\* lines 1249-1254
PrevGame ==
    /\ OnSessionScreen
    /\ canGoPrev(Active)
    /\ sessions' = updateSession(sessions, Active[1].id, goPrev(Active[1]))
    /\ UNCHANGED <<screen, activeSessionId>>
    /\ Step /\ Commit(TRUE) /\ UNCHANGED engVars

\* lines 1265-1277
NextOrAddGame ==
    /\ OnSessionScreen
    /\ IF canGoNext(Active)
       THEN sessions' = updateSession(sessions, Active[1].id, goNext(Active[1]))
       ELSE /\ Len(Active[1].games) < MaxGames
            /\ sessions' = updateSession(sessions, Active[1].id, addGameTo(Active[1]))
    /\ UNCHANGED <<screen, activeSessionId>>
    /\ Step /\ Commit(TRUE) /\ UNCHANGED engVars

\* lines 835-839 (the button is disabled on the only round)
RemoveGame ==
    /\ OnSessionScreen
    /\ Len(Active[1].games) # 1
    /\ sessions' = updateSession(sessions, Active[1].id,
                       removeGameFrom(Active[1], CurrentGame.id))
    /\ UNCHANGED <<screen, activeSessionId>>
    /\ Step /\ Commit(TRUE) /\ UNCHANGED engVars

\* lines 1221-1234, the confirmation accepted
ResetSession ==
    /\ screen = "summary"
    /\ Active # <<>>
    /\ sessions' = updateSession(sessions, Active[1].id, resetGames(Active[1]))
    /\ screen' = "session"
    /\ UNCHANGED activeSessionId
    /\ Step /\ Commit(TRUE) /\ UNCHANGED engVars

\* lines 822-833
ToggleU ==
    /\ OnSessionScreen
    /\ UpdateCurrentGame(toggleU(CurrentGame, ~CurrentGame.u))
    /\ Step /\ Commit(TRUE) /\ UNCHANGED engVars

\* lines 847-865 (the select is rendered in self-win mode)
SelectWinner ==
    /\ OnSessionScreen
    /\ CurrentGame.u
    /\ \E value \in IdsOf(Active[1].players) :
          /\ value # CurrentGame.placements.first
          /\ UpdateCurrentGame(selectWinner(CurrentGame, value))
    /\ Step /\ Commit(TRUE) /\ UNCHANGED engVars

\* lines 624-641 and 564-581: a chip dropped on a placement zone
DropOnPlacement ==
    /\ OnSessionScreen
    /\ ~CurrentGame.u
    /\ \E key \in PlacementKey, playerId \in IdsOf(Active[1].players) :
          UpdateCurrentGame(dropPlacement(CurrentGame, key, playerId))
    /\ Step /\ Commit(TRUE) /\ UNCHANGED engVars

\* lines 624-641 and 583-603: a chip dropped on the burn zone
DropOnChay ==
    /\ OnSessionScreen
    /\ ~CurrentGame.u
    /\ \E playerId \in IdsOf(Active[1].players) :
          /\ UpdateCurrentGame(handleDropChay(CurrentGame, CurrentGame, playerId))
          /\ Commit(playerId # CurrentGame.placements.first)
    /\ Step /\ UNCHANGED engVars

\* lines 929-932 (the button is rendered on an occupied slot)
ClearPlacement ==
    /\ OnSessionScreen
    /\ ~CurrentGame.u
    /\ \E key \in PlacementKey :
          /\ CurrentGame.placements[key] \in IdsOf(Active[1].players)
          /\ UpdateCurrentGame(clearPlacement(CurrentGame, key))
    /\ Step /\ Commit(TRUE) /\ UNCHANGED engVars

\* lines 960-966
RemoveChayPlayer ==
    /\ OnSessionScreen
    /\ ~CurrentGame.u
    /\ \E i \in DOMAIN CurrentGame.chay :
          /\ CurrentGame.chay[i].from \in IdsOf(Active[1].players)
          /\ UpdateCurrentGame(
                removeChayPlayer(CurrentGame, CurrentGame.chay[i].from))
    /\ Step /\ Commit(TRUE) /\ UNCHANGED engVars

\* lines 985-993
AddAnChot ==
    /\ OnSessionScreen
    /\ Len(CurrentGame.anChot) < MaxAnChot
    /\ UpdateCurrentGame(addAnChot(CurrentGame, Active[1].players))
    /\ Step /\ Commit(TRUE) /\ UNCHANGED engVars

\* lines 1017-1036
SetAnChotFrom ==
    /\ OnSessionScreen
    /\ \E i \in DOMAIN CurrentGame.anChot, value \in IdsOf(Active[1].players) :
          /\ value # CurrentGame.anChot[i].from
          /\ UpdateCurrentGame(
                setAnChotFrom(CurrentGame, CurrentGame.anChot[i].id, value))
    /\ Step /\ Commit(TRUE) /\ UNCHANGED engVars

\* lines 1054-1073
SetAnChotTo ==
    /\ OnSessionScreen
    /\ \E i \in DOMAIN CurrentGame.anChot, value \in IdsOf(Active[1].players) :
          /\ value # CurrentGame.anChot[i].to
          /\ UpdateCurrentGame(
                setAnChotTo(CurrentGame, CurrentGame.anChot[i].id, value))
    /\ Step /\ Commit(TRUE) /\ UNCHANGED engVars

\* lines 1090-1098
DeleteAnChot ==
    /\ OnSessionScreen
    /\ \E i \in DOMAIN CurrentGame.anChot :
          UpdateCurrentGame(
              deleteAnChot(CurrentGame, CurrentGame.anChot[i].id))
    /\ Step /\ Commit(TRUE) /\ UNCHANGED engVars

Next ==
    \/ CreateNewSession
    \/ OpenSession
    \/ SaveEditSession
    \/ MenuGo
    \/ PrevGame
    \/ NextOrAddGame
    \/ RemoveGame
    \/ ResetSession
    \/ ToggleU
    \/ SelectWinner
    \/ DropOnPlacement
    \/ DropOnChay
    \/ ClearPlacement
    \/ RemoveChayPlayer
    \/ AddAnChot
    \/ SetAnChotFrom
    \/ SetAnChotTo
    \/ DeleteAnChot

\* the engine variables while the store runs
EngineIdle ==
    /\ engGame = createGame(0)
    /\ engAcc = InitialAcc(createPlayers(<<"", "", "", "">>))
    /\ engPc = "start"
    /\ engTotal = 0

Init == StoreInit /\ EngineIdle

Spec == Init /\ [][Next]_vars

(***************************************************************************)
(* The engine run on one round, a statement group at a time.               *)
(***************************************************************************)
EnginePlayers == createPlayers(<<"", "", "", "">>)

\* the burn entries handed to the engine: any `from` with the `to` and
\* `points` fields the editor writes when p1 holds slot first, and one entry
\* with other `to` and `points` fields
ChayEntries ==
    {[id |-> 0, from |-> f, to |-> "p1", points |-> 4] : f \in Slot}
        \cup {[id |-> 0, from |-> "p2", to |-> "", points |-> 7]}

\* the manual transfers handed to the engine: every combination of endpoints
\* among two players and the empty string, the two valid ones with different
\* amounts
TransferEnds == {"", "p1", "p2"}
AnChotEntries ==
    {[id |-> 0, from |-> f, to |-> t, points |-> IF f = "p2" /\ t = "p1" THEN 1 ELSE 4] :
        f \in TransferEnds, t \in TransferEnds}

SeqsUpTo(S, n) == UNION {[1..k -> S] : k \in 0..n}

\* rounds without manual transfers: every flag, every assignment of the
\* slots, up to MaxChay burn entries
EngineGames ==
    [id : {0},
     u : BOOLEAN,
     placements : [PlacementKey -> Slot],
     anChot : {<<>>},
     chay : SeqsUpTo(ChayEntries, MaxChay)]

\* rounds with up to MaxAnChot manual transfers: every flag, every
\* assignment of the slots, at most one burn entry
TransferGames ==
    [id : {0},
     u : BOOLEAN,
     placements : [PlacementKey -> Slot],
     anChot : SeqsUpTo(AnChotEntries, MaxAnChot),
     chay : SeqsUpTo(ChayEntries, 1)]

EngineInit ==
    /\ StoreInit
    /\ engGame \in EngineGames
    /\ engAcc = InitialAcc(EnginePlayers)
    /\ engPc = "start"
    /\ engTotal = 0

TransferInit ==
    /\ StoreInit
    /\ engGame \in TransferGames
    /\ engAcc = InitialAcc(EnginePlayers)
    /\ engPc = "start"
    /\ engTotal = 0

\* lines 137-146
EngSelfWin ==
    /\ engPc = "start"
    /\ engGame.u
    /\ engAcc' = SelfWinBranch(engAcc, engGame, EnginePlayers)
    /\ engPc' = "transfers"
    /\ UNCHANGED <<engGame, engTotal>>
    /\ UNCHANGED storeVars

\* lines 151-163: the guards of the burn branch and the burn payments
EngChayPayments ==
    /\ engPc = "start"
    /\ ~engGame.u
    /\ hasChay(engGame)
    /\ IF engGame.placements.first = ""
          \/ engGame.placements.first \in Range(chaySetOf(engGame))
       THEN /\ engAcc' = ChayBranch(engAcc, engGame, EnginePlayers)
            /\ engPc' = "transfers"
       ELSE /\ engAcc' = ChayPayments(engAcc, engGame)
            /\ engPc' = "bonuses"
    /\ UNCHANGED <<engGame, engTotal>>
    /\ UNCHANGED storeVars

\* lines 165-175
EngPlaceBonuses ==
    /\ engPc = "bonuses"
    /\ engAcc' = PlaceBonuses(engAcc, engGame)
    /\ engPc' = "completeness"
    /\ UNCHANGED <<engGame, engTotal>>
    /\ UNCHANGED storeVars

\* lines 177-186
EngCompleteness ==
    /\ engPc = "completeness"
    /\ engAcc' = CompletenessWarnings(engAcc, engGame, EnginePlayers)
    /\ engPc' = "transfers"
    /\ UNCHANGED <<engGame, engTotal>>
    /\ UNCHANGED storeVars

\* lines 188-204
EngRanking ==
    /\ engPc = "start"
    /\ ~engGame.u
    /\ ~hasChay(engGame)
    /\ engAcc' = RankingBranch(engAcc, engGame)
    /\ engPc' = "transfers"
    /\ UNCHANGED <<engGame, engTotal>>
    /\ UNCHANGED storeVars

\* lines 207-211
EngTransfers ==
    /\ engPc = "transfers"
    /\ engAcc' = ManualTransfers(engAcc, engGame)
    /\ engTotal' = totalOf(engAcc'.points)
    /\ engPc' = "done"
    /\ UNCHANGED engGame
    /\ UNCHANGED storeVars

EngineNext ==
    \/ EngSelfWin
    \/ EngChayPayments
    \/ EngPlaceBonuses
    \/ EngCompleteness
    \/ EngRanking
    \/ EngTransfers

SpecEngine == EngineInit /\ [][EngineNext]_vars

SpecTransfers == TransferInit /\ [][EngineNext]_vars

(***************************************************************************)
(* Vocabulary of the properties.                                           *)
(***************************************************************************)
\* the players named as `from` of at least one burn entry
BurnedSet(game) == {game.chay[i].from : i \in DOMAIN game.chay} \ {""}

\* a manual transfer that moves points
ValidTransfer(t) == t.from # "" /\ t.to # "" /\ t.from # t.to

\* what the valid transfers among the first n give player p, net
RECURSIVE NetUpTo(_, _, _)
NetUpTo(anChot, p, n) ==
    IF n = 0 THEN 0
    ELSE NetUpTo(anChot, p, n - 1)
         + (IF ValidTransfer(anChot[n]) /\ anChot[n].to = p THEN anChot[n].points ELSE 0)
         - (IF ValidTransfer(anChot[n]) /\ anChot[n].from = p THEN anChot[n].points ELSE 0)

Net(anChot, p) == NetUpTo(anChot, p, Len(anChot))

\* what the first n transfers give player p when every one of them is applied
RECURSIVE GrossUpTo(_, _, _)
GrossUpTo(anChot, p, n) ==
    IF n = 0 THEN 0
    ELSE GrossUpTo(anChot, p, n - 1)
         + (IF anChot[n].to = p THEN anChot[n].points ELSE 0)
         - (IF anChot[n].from = p THEN anChot[n].points ELSE 0)

Gross(anChot, p) == GrossUpTo(anChot, p, Len(anChot))

AllZero(points) == \A p \in IdSet : points[p] = 0

\* the round is scored as a burn round: not self-win, someone burned, the
\* winner set and not burned
BurnRoundScored(game) ==
    /\ ~game.u
    /\ BurnedSet(game) # {}
    /\ game.placements.first # ""
    /\ game.placements.first \notin BurnedSet(game)

SecondPays(game) ==
    /\ game.placements.second # ""
    /\ game.placements.second # game.placements.first
    /\ game.placements.second \notin BurnedSet(game)

ThirdPays(game) ==
    /\ game.placements.third # ""
    /\ game.placements.third # game.placements.first
    /\ game.placements.third # game.placements.second
    /\ game.placements.third \notin BurnedSet(game)

\* slot second is missing or invalid
SecondMissing(game) ==
    \/ game.placements.second = ""
    \/ game.placements.second = game.placements.first
    \/ game.placements.second \in BurnedSet(game)

\* the players neither burned nor the winner
Remaining(game) == IdSet \ (BurnedSet(game) \cup {game.placements.first})

(***************************************************************************)
(* Properties of the score engine.                                         *)
(***************************************************************************)
\* C1: a round scored without any warning is zero-sum: the four deltas add
\* up to 0 and so does the returned total.
ZeroSumWithoutWarnings ==
    (engPc = "done" /\ engAcc.warnings = <<>>) =>
        /\ engAcc.points["p1"] + engAcc.points["p2"]
             + engAcc.points["p3"] + engAcc.points["p4"] = 0
        /\ engTotal = 0

\* C1 witness: a burn round with both place bonuses and two valid manual
\* transfers, scored without a warning.
ZeroSumWitness ==
    /\ engPc = "done"
    /\ engAcc.warnings = <<>>
    /\ BurnRoundScored(engGame)
    /\ SecondPays(engGame) /\ ThirdPays(engGame)
    /\ Len(engGame.anChot) = 2
    /\ engAcc.points["p1"] # 0

\* C2: in ranking mode (not self-win, no burn entry with a non-empty from),
\* four distinct players in the four slots give +6, -1, -2, -3 and no
\* warning; an empty slot or a player in two slots gives exactly the warning
\* "ranking incomplete" and all deltas 0, before the manual transfers.
RankingTariff ==
    (engPc = "transfers" /\ ~engGame.u /\ BurnedSet(engGame) = {}) =>
        IF /\ \A k \in PlacementKey : engGame.placements[k] # ""
           /\ \A k1, k2 \in PlacementKey :
                 k1 # k2 => engGame.placements[k1] # engGame.placements[k2]
        THEN /\ engAcc.points[engGame.placements.first] = 6
             /\ engAcc.points[engGame.placements.second] = -1
             /\ engAcc.points[engGame.placements.third] = -2
             /\ engAcc.points[engGame.placements.fourth] = -3
             /\ engAcc.warnings = <<>>
        ELSE /\ engAcc.warnings = <<WarnRankingIncomplete>>
             /\ AllZero(engAcc.points)

\* C2 witness: a complete ranking scored, with burn entries whose from is
\* empty in the round.
RankingTariffWitness ==
    /\ engPc = "transfers"
    /\ ~engGame.u
    /\ Len(engGame.chay) > 0
    /\ BurnedSet(engGame) = {}
    /\ engGame.placements.fourth = "p1"
    /\ engAcc.points["p1"] = -3

\* C3: in self-win mode an empty slot first gives the warning "no self-win
\* player chosen" and all deltas 0; a winner W gives W +15 and each other
\* player -5, before the manual transfers, whatever the other slots and the
\* burns hold.
SelfWinTariff ==
    (engPc = "transfers" /\ engGame.u) =>
        IF engGame.placements.first = ""
        THEN /\ engAcc.warnings = <<WarnNoUPlayer>>
             /\ AllZero(engAcc.points)
        ELSE /\ engAcc.warnings = <<>>
             /\ \A p \in IdSet :
                   engAcc.points[p] = IF p = engGame.placements.first THEN 15 ELSE -5

\* C3 witness: a self-win round scored whose other slots and burns are set.
SelfWinTariffWitness ==
    /\ engPc = "transfers"
    /\ engGame.u
    /\ engGame.placements.first = "p3"
    /\ engGame.placements.second = "p2"
    /\ engGame.placements.third = "p3"
    /\ BurnedSet(engGame) = {"p2", "p3"}
    /\ engAcc.points["p3"] = 15
    /\ engAcc.points["p2"] = -5

\* C4: in a burn round with the winner W set and not burned, every distinct
\* burned player pays 4 to W, however many entries name that player and
\* whatever their to and points fields: before the place bonuses W has
\* 4 * |B|, each burned player -4 and everybody else 0; the later steps leave
\* the burned players at -4 and W at 4 * |B| or more.
BurnTransfer ==
    /\ engPc = "bonuses" =>
          /\ BurnRoundScored(engGame)
          /\ \A p \in IdSet :
                engAcc.points[p] =
                    IF p = engGame.placements.first
                    THEN 4 * Cardinality(BurnedSet(engGame))
                    ELSE IF p \in BurnedSet(engGame) THEN -4 ELSE 0
    /\ (BurnRoundScored(engGame) /\ engPc # "start") =>
          /\ \A b \in BurnedSet(engGame) : engAcc.points[b] = -4
          /\ engAcc.points[engGame.placements.first]
                >= 4 * Cardinality(BurnedSet(engGame))

\* C4 witness: two burned players named by three entries, one of them with
\* other to and points fields, after the burn payments.
BurnTransferWitness ==
    /\ engPc = "bonuses"
    /\ Len(engGame.chay) = 3
    /\ Cardinality(BurnedSet(engGame)) = 2
    /\ \E i \in DOMAIN engGame.chay :
          engGame.chay[i].points = 7 /\ engGame.chay[i].to # engGame.placements.first
    /\ engAcc.points[engGame.placements.first] = 8

\* C5: in a burn round with the winner W set and not burned, second pays 1
\* to W exactly when slot second is set, is not W and is not burned; third
\* pays 2 to W exactly when slot third is set, is not W, is not slot second
\* and is not burned; slot fourth changes nothing.  first = p1, burn from p2,
\* second = p3, third = p4 gives 7, -4, -1, -2 and total 0.
PlaceBonusRule ==
    /\ engPc = "completeness" =>
          \A p \in IdSet :
             engAcc.points[p] =
                (IF p = engGame.placements.first
                 THEN 4 * Cardinality(BurnedSet(engGame))
                      + (IF SecondPays(engGame) THEN 1 ELSE 0)
                      + (IF ThirdPays(engGame) THEN 2 ELSE 0)
                 ELSE 0)
                - (IF p \in BurnedSet(engGame) THEN 4 ELSE 0)
                - (IF SecondPays(engGame) /\ p = engGame.placements.second THEN 1 ELSE 0)
                - (IF ThirdPays(engGame) /\ p = engGame.placements.third THEN 2 ELSE 0)
    /\ (/\ engPc = "done"
        /\ ~engGame.u
        /\ engGame.placements.first = "p1"
        /\ engGame.placements.second = "p3"
        /\ engGame.placements.third = "p4"
        /\ BurnedSet(engGame) = {"p2"}) =>
          /\ engAcc.points = [p \in IdSet |->
                IF p = "p1" THEN 7 ELSE IF p = "p2" THEN -4
                ELSE IF p = "p3" THEN -1 ELSE -2]
          /\ engTotal = 0

\* C5 witness: the round first = p1, burn from p2, second = p3, third = p4,
\* with slot fourth set as well, scored.
PlaceBonusWitness ==
    /\ engPc = "done"
    /\ ~engGame.u
    /\ engGame.placements = [first |-> "p1", second |-> "p3",
                             third |-> "p4", fourth |-> "p3"]
    /\ BurnedSet(engGame) = {"p2"}
    /\ engAcc.points["p1"] = 7

\* a round as the editor leaves it: no player in two slots, every burn
\* entry naming another player, none of them in a slot, with to = slot first
EditorRound(game) ==
    /\ \A k1, k2 \in PlacementKey :
          (k1 # k2 /\ game.placements[k1] # "") => game.placements[k1] # game.placements[k2]
    /\ \A i \in DOMAIN game.chay :
          /\ game.chay[i].from # ""
          /\ game.chay[i].to = game.placements.first
          /\ game.chay[i].points = 4
          /\ \A k \in PlacementKey : game.placements[k] # game.chay[i].from
          /\ \A j \in DOMAIN game.chay : game.chay[j].from = game.chay[i].from => j = i

\* C6 as stated (on the rounds the editor produces): in a scored burn round
\* "missing second place" is emitted exactly when at least 2 players are
\* neither burned nor the winner and slot second is empty, the winner or
\* burned; two burned players, a winner and a single remaining player with
\* slot second empty get no warning.
MissingSecondAsStated ==
    (engPc = "transfers" /\ BurnRoundScored(engGame) /\ EditorRound(engGame)) =>
        ((WarnMissingSecond \in Range(engAcc.warnings)) <=>
            (Cardinality(Remaining(engGame)) >= 2 /\ SecondMissing(engGame)))

\* C6 amended: in a scored burn round "missing second place" is emitted
\* exactly when at least 1 player is neither burned nor the winner (at least
\* 2 players, the winner among them, are not burned) and slot second is
\* empty, the winner or burned.
MissingSecondWarningRule ==
    (engPc = "transfers" /\ BurnRoundScored(engGame)) =>
        ((WarnMissingSecond \in Range(engAcc.warnings)) <=>
            (Cardinality(Remaining(engGame)) >= 1 /\ SecondMissing(engGame)))

\* C6 witness: two burned players, the winner and a single remaining player,
\* slot second empty: the warning is emitted.
MissingSecondWitness ==
    /\ engPc = "transfers"
    /\ BurnRoundScored(engGame)
    /\ Cardinality(BurnedSet(engGame)) = 2
    /\ engGame.placements.second = ""
    /\ WarnMissingSecond \in Range(engAcc.warnings)

\* C7: the manual transfers are applied after the mode-specific part in
\* every mode, also when that part only warned: the step at line 207 adds to
\* each player's delta the amounts of the valid transfers to that player
\* minus those from that player.
ManualTransfersApplied ==
    [][engPc = "transfers" =>
        \A p \in IdSet :
            engAcc'.points[p] = engAcc.points[p] + Net(engGame.anChot, p)]_vars

\* C7 witness: a round whose burn scoring was skipped (winner burned), with
\* two valid manual transfers applied.
ManualTransfersWitness ==
    /\ engPc = "done"
    /\ engAcc.warnings = <<WarnWinnerChay>>
    /\ Len(engGame.anChot) = 2
    /\ engAcc.points["p1"] = -3
    /\ engAcc.points["p2"] = 3

\* C8: a manual transfer with from = to or an empty endpoint changes no
\* delta and adds exactly one "invalid transfer" warning; the other transfers
\* of the round are applied: the step at line 207 appends one warning per
\* invalid transfer and changes the deltas as the valid transfers alone do.
InvalidTransferRejected ==
    [][engPc = "transfers" =>
        LET valid == SelectSeq(engGame.anChot, ValidTransfer)
            nInvalid == Len(engGame.anChot) - Len(valid)
        IN  /\ engAcc'.warnings =
                  engAcc.warnings \o [i \in 1..nInvalid |-> WarnInvalidTransfer]
            /\ \A p \in IdSet :
                  engAcc'.points[p] = engAcc.points[p] + Gross(valid, p)]_vars

\* C8 witness: a transfer from p1 to p1 followed by a valid one, both
\* processed.
InvalidTransferWitness ==
    /\ engPc = "done"
    /\ Len(engGame.anChot) = 2
    /\ engGame.anChot[1].from = "p1" /\ engGame.anChot[1].to = "p1"
    /\ ValidTransfer(engGame.anChot[2])
    /\ engAcc.warnings = <<WarnInvalidTransfer>>
    /\ engAcc.points["p1"] # engAcc.points["p2"]

(***************************************************************************)
(* Properties of the session aggregation.                                  *)
(***************************************************************************)
\* the sum over the first n rounds of what the engine gives player p
RECURSIVE RoundPointsUpTo(_, _, _, _)
RoundPointsUpTo(games, players, p, n) ==
    IF n = 0 THEN 0
    ELSE RoundPointsUpTo(games, players, p, n - 1)
         + computeGamePoints(games[n], players).points[p]

\* the number of entries of the burn lists of all rounds whose from is p
ChayFromCount(games, p) ==
    Cardinality({<<g, i>> \in (DOMAIN games) \X (1..4) :
                    i \in DOMAIN games[g].chay /\ games[g].chay[i].from = p})

\* the number of manual transfers of all rounds whose from is p
AnChotFromCount(games, p) ==
    Cardinality({<<g, i>> \in (DOMAIN games) \X (1..(MaxAnChot + 1)) :
                    i \in DOMAIN games[g].anChot /\ games[g].anChot[i].from = p})

\* stat names every seat whose count is the largest one, in seat order, and
\* nobody else, or the sentinel when every count is 0
NamesTheTop(stat, players, count) ==
    LET max == CHOOSE m \in {count[players[i].id] : i \in 1..4} :
                   \A i \in 1..4 : count[players[i].id] <= m
        tied == {i \in 1..4 : count[players[i].id] = max}
    IN  /\ stat.count = max
        /\ IF max = 0 THEN stat.names = <<NoneYet>>
           ELSE /\ Len(stat.names) = Cardinality(tied)
                /\ \A i \in tied :
                      stat.names[Cardinality({j \in tied : j <= i})] = players[i].name

\* C9: in every state of the store and for every player p, the session
\* total of p is the sum over the rounds now in the active session of the
\* engine's delta for p, and the session balance is the sum of the four
\* totals.
AggregationSums ==
    Active # <<>> =>
        /\ \A p \in IdSet :
              sessionTotals[p] =
                  RoundPointsUpTo(Active[1].games, Active[1].players, p,
                                  Len(Active[1].games))
        /\ sessionBalanceOf(sessionTotals) =
              sessionTotals["p1"] + sessionTotals["p2"]
                + sessionTotals["p3"] + sessionTotals["p4"]

\* C9 witness: a session of two rounds, both with a manual transfer from
\* p4 to p1, whose totals add the two rounds up.
AggregationWitness ==
    /\ Active # <<>>
    /\ Len(Active[1].games) = 2
    /\ gameSummaries[1].points["p1"] = 4
    /\ gameSummaries[2].points["p1"] = 4
    /\ sessionTotals["p1"] = 8
    /\ sessionTotals["p4"] = -8

\* C10: for the burns and for the manual transfers, the statistic reports
\* the largest number of entries, over all rounds of the session, that name
\* one player as from, with the names of exactly the players that reach it;
\* with no such entry it reports 0 and the single name "none yet".
TopStatistics ==
    IF Active = <<>>
    THEN /\ funStats.mostChay = [names |-> <<NoneYet>>, count |-> 0]
         /\ funStats.mostAnChot = [names |-> <<NoneYet>>, count |-> 0]
    ELSE /\ NamesTheTop(funStats.mostChay, Active[1].players,
                        [p \in IdSet |-> ChayFromCount(Active[1].games, p)])
         /\ NamesTheTop(funStats.mostAnChot, Active[1].players,
                        [p \in IdSet |-> AnChotFromCount(Active[1].games, p)])

\* C10 witness: two players burned once each (a tie), and one player named
\* by a manual transfer.
TopStatisticsWitness ==
    /\ Active # <<>>
    /\ funStats.mostChay.count = 1
    /\ Len(funStats.mostChay.names) = 2
    /\ funStats.mostAnChot.count = 1
    /\ Len(funStats.mostAnChot.names) = 1

(***************************************************************************)
(* Properties of the engine's error handling.                              *)
(***************************************************************************)
Warnings ==
    {WarnInvalidTransfer, WarnNoUPlayer, WarnWinnerRequired, WarnWinnerChay,
     WarnMissingSecond, WarnMissingThird, WarnRankingIncomplete}

\* the result is well-typed: one integer delta per player, an integer
\* total, a list of warning strings
WellTypedResult ==
    /\ DOMAIN engAcc.points = IdSet
    /\ \A p \in IdSet : engAcc.points[p] \in Int
    /\ engTotal \in Int
    /\ \A i \in DOMAIN engAcc.warnings : engAcc.warnings[i] \in Warnings

\* a player id held in two of the slots
HeldTwice(game) ==
    \E k1 \in PlacementKey, k2 \in PlacementKey :
        k1 # k2 /\ game.placements[k1] # "" /\ game.placements[k1] = game.placements[k2]

FourDistinct(game) ==
    Cardinality({game.placements[k] : k \in PlacementKey} \ {""}) = 4

\* the round is incomplete or self-contradictory in what its mode reads
IncompleteForItsMode(game) ==
    \/ game.u /\ game.placements.first = ""
    \/ ~game.u /\ BurnedSet(game) # {} /\ game.placements.first = ""
    \/ ~game.u /\ game.placements.first # "" /\ game.placements.first \in BurnedSet(game)
    \/ ~game.u /\ BurnedSet(game) = {} /\ ~FourDistinct(game)
    \/ \E i \in DOMAIN game.anChot : ~ValidTransfer(game.anChot[i])

\* C11 as stated: the engine always returns a result, and a non-empty
\* warnings list for every incomplete or self-contradictory round, a player
\* held in two ranking slots included (counted here only when self-win is
\* off, the mode in which the slots are a ranking).
WarnsOnEveryContradiction ==
    /\ engPc # "done" => ENABLED EngineNext
    /\ engPc = "done" =>
          /\ WellTypedResult
          /\ (IncompleteForItsMode(engGame) \/ (~engGame.u /\ HeldTwice(engGame)))
                => engAcc.warnings # <<>>

\* C11 amended: the engine always returns deltas, total and warnings, and a
\* non-empty warnings list for every round that is incomplete or
\* self-contradictory in what its mode reads: winner missing in self-win or
\* burn mode, winner burned in burn mode, ranking mode without four distinct
\* players, an invalid manual transfer.
WarnsOnWhatTheModeReads ==
    /\ engPc # "done" => ENABLED EngineNext
    /\ engPc = "done" =>
          /\ WellTypedResult
          /\ IncompleteForItsMode(engGame) => engAcc.warnings # <<>>

\* C11 witness: a burn round whose winner is burned, with a valid manual
\* transfer: the engine returns best-effort deltas and the warning.
WarnsWitness ==
    /\ engPc = "done"
    /\ ~engGame.u
    /\ engGame.placements.first = "p2"
    /\ BurnedSet(engGame) = {"p2"}
    /\ Len(engGame.anChot) = 1 /\ ValidTransfer(engGame.anChot[1])
    /\ engAcc.warnings = <<WarnWinnerChay>>
    /\ engAcc.points["p1"] # 0
    /\ engTotal = 0

(***************************************************************************)
(* The round editor on its own: one session opened on its blank round     *)
(* (the state createNewSession leaves, lines 409-416) and the operations   *)
(* of the result card, any number of times.                                *)
(***************************************************************************)
EditorInit ==
    /\ sessions = <<createSession(1, <<"", "", "", "">>, makeId({}))>>
    /\ screen = "session"
    /\ activeSessionId = makeId({})
    /\ gameSummaries = gameSummariesOf(sessions)
    /\ sessionTotals = sessionTotalsOf(sessions, gameSummaries)
    /\ funStats = funStatsOf(sessions)
    /\ steps = 0
    /\ hydrated = TRUE
    /\ storageFails = FALSE
    /\ storage = stringify(Memory(sessions, activeSessionId, screen))
    /\ saveAttempt = storage
    /\ renderedGame = renderedGameOf(sessions, activeSessionId)
    /\ EngineIdle

\* lines 513-521 with the render and the effects that follow
EditRound(updated) ==
    /\ UpdateCurrentGame(updated)
    /\ Commit(TRUE)
    /\ UNCHANGED steps
    /\ UNCHANGED engVars

\* lines 822-833
EditToggleU ==
    /\ OnSessionScreen
    /\ EditRound(toggleU(CurrentGame, ~CurrentGame.u))

\* lines 847-865 (the select is rendered in self-win mode)
EditSelectWinner ==
    /\ OnSessionScreen
    /\ CurrentGame.u
    /\ \E value \in IdsOf(Active[1].players) :
          /\ value # CurrentGame.placements.first
          /\ EditRound(selectWinner(CurrentGame, value))

\* lines 624-641 and 564-581: a chip dropped on a placement zone
EditDropOnPlacement ==
    /\ OnSessionScreen
    /\ ~CurrentGame.u
    /\ \E key \in PlacementKey, playerId \in IdsOf(Active[1].players) :
          EditRound(dropPlacement(CurrentGame, key, playerId))

\* lines 624-641 and 583-603: a chip dropped on the burn zone
EditDropOnChay ==
    /\ OnSessionScreen
    /\ ~CurrentGame.u
    /\ \E playerId \in IdsOf(Active[1].players) :
          /\ UpdateCurrentGame(handleDropChay(CurrentGame, CurrentGame, playerId))
          /\ Commit(playerId # CurrentGame.placements.first)
    /\ UNCHANGED steps
    /\ UNCHANGED engVars

\* lines 929-932 (the button is rendered on an occupied slot)
EditClearPlacement ==
    /\ OnSessionScreen
    /\ ~CurrentGame.u
    /\ \E key \in PlacementKey :
          /\ CurrentGame.placements[key] \in IdsOf(Active[1].players)
          /\ EditRound(clearPlacement(CurrentGame, key))

\* lines 960-966
EditRemoveChayPlayer ==
    /\ OnSessionScreen
    /\ ~CurrentGame.u
    /\ \E i \in DOMAIN CurrentGame.chay :
          /\ CurrentGame.chay[i].from \in IdsOf(Active[1].players)
          /\ EditRound(removeChayPlayer(CurrentGame, CurrentGame.chay[i].from))

EditorNext ==
    \/ EditToggleU
    \/ EditSelectWinner
    \/ EditDropOnPlacement
    \/ EditDropOnChay
    \/ EditClearPlacement
    \/ EditRemoveChayPlayer

SpecEditor == EditorInit /\ [][EditorNext]_vars

(***************************************************************************)
(* Properties of the round editor.                                         *)
(***************************************************************************)
\* every round of every session of the store
AllRounds ==
    {sessions[i].games[j] : <<i, j>> \in
        {<<i, j>> \in (DOMAIN sessions) \X (1..(MaxGames + 1)) :
            j \in DOMAIN sessions[i].games}}

\* C12 as stated: after any sequence of round edits no player id occupies
\* more than one of the slots first, second, third, fourth.
SlotExclusivity == \A game \in AllRounds : ~HeldTwice(game)

\* C13 as stated: after any sequence of round edits every burn entry's to
\* field is the current content of slot first.
WinnerTracking ==
    \A game \in AllRounds :
        \A i \in DOMAIN game.chay : game.chay[i].to = game.placements.first

\* the round edits offered on a round, applied to it
EditsOf(game) ==
    {toggleU(game, ~game.u)}
        \cup (IF game.u THEN {selectWinner(game, value) : value \in IdSet} ELSE {})
        \cup {dropPlacement(game, key, playerId) : key \in PlacementKey, playerId \in IdSet}
        \cup {handleDropChay(game, game, playerId) : playerId \in IdSet}
        \cup {clearPlacement(game, key) : key \in PlacementKey}
        \cup {removeChayPlayer(game, playerId) : playerId \in IdSet}

\* C14: in every round reached by round edits self-win implies an empty
\* burns list; toggling self-win on empties the list, and no edit of a
\* self-win round adds a burn.
ModeExclusivity ==
    \A game \in AllRounds :
        /\ game.u => game.chay = <<>>
        /\ ~game.u => LET on == toggleU(game, TRUE) IN on.u /\ on.chay = <<>>
        /\ game.u => \A after \in EditsOf(game) : after.chay = <<>>

\* C14 witness: a self-win round with a chosen winner, its earlier ranking
\* still in the slots, and no burns.
ModeExclusivityWitness ==
    \E game \in AllRounds :
        /\ game.u
        /\ game.placements.first = "p2"
        /\ game.placements.third = "p1"
        /\ game.chay = <<>>

\* C15: in every round reached by round edits no burn entry is from the
\* player in slot first and none has from = to, so the engine never reports
\* a burned winner for such a round.
WinnerNeverBurned ==
    \A game \in AllRounds :
        /\ \A i \in DOMAIN game.chay :
              /\ game.placements.first # "" => game.chay[i].from # game.placements.first
              /\ game.chay[i].from # game.chay[i].to
        /\ WarnWinnerChay \notin Range(computeGamePoints(game, EnginePlayers).warnings)
        /\ \A i \in DOMAIN gameSummaries :
              WarnWinnerChay \notin Range(gameSummaries[i].warnings)

\* C15 witness: a burned player was made the winner: slot first holds p2
\* and the burn that is left, from p3, points at p2.
WinnerNeverBurnedWitness ==
    \E game \in AllRounds :
        /\ ~game.u
        /\ game.placements.first = "p2"
        /\ Len(game.chay) = 1
        /\ game.chay[1].from = "p3" /\ game.chay[1].to = "p2" /\ game.chay[1].id = 2

\* C16: in a non-self-win round with at least one burn entry naming a
\* player, an empty slot first gives the single warning "winner required to
\* score burns" and a burned winner the single warning "winner cannot be
\* burned"; in both cases every delta before the manual transfers is 0: no
\* burn payment, no place bonus, no completeness warning, no ranking tariff.
BurnModeGuards ==
    (engPc = "transfers" /\ ~engGame.u /\ BurnedSet(engGame) # {}) =>
        /\ engGame.placements.first = "" =>
              engAcc.warnings = <<WarnWinnerRequired>> /\ AllZero(engAcc.points)
        /\ engGame.placements.first \in BurnedSet(engGame) =>
              engAcc.warnings = <<WarnWinnerChay>> /\ AllZero(engAcc.points)

\* C16 witness: four distinct players in the slots and the winner burned
\* together with another player: only the warning, no points.
BurnModeGuardsWitness ==
    /\ engPc = "transfers"
    /\ ~engGame.u
    /\ FourDistinct(engGame)
    /\ engGame.placements.first = "p2"
    /\ BurnedSet(engGame) = {"p2", "p3"}
    /\ engAcc.warnings = <<WarnWinnerChay>>
    /\ AllZero(engAcc.points)

\* C17: dropping player X on the burn zone leaves the round unchanged if
\* self-win is on, if X holds slot first or if X is already burned;
\* otherwise it appends one burn entry from X to the content of slot first,
\* empties the slot among second, third, fourth that held X, and leaves slot
\* first, the other slots, the existing burns, the manual transfers and the
\* flag as they were.
AddToBurn ==
    \A game \in AllRounds, X \in IdSet :
        LET after == handleDropChay(game, game, X)
            n == Len(game.chay)
        IN  IF game.u \/ X = game.placements.first \/ X \in BurnedSet(game)
            THEN after = game
            ELSE /\ Len(after.chay) = n + 1
                 /\ \A i \in 1..n : after.chay[i] = game.chay[i]
                 /\ after.chay[n + 1].from = X
                 /\ after.chay[n + 1].to = game.placements.first
                 /\ after.placements.first = game.placements.first
                 /\ \A key \in PlacementKey \ {"first"} :
                       after.placements[key] =
                           IF game.placements[key] = X THEN "" ELSE game.placements[key]
                 /\ after.anChot = game.anChot
                 /\ after.u = game.u
                 /\ after.id = game.id

\* C17 witness: p3 was dropped on the burn zone after p2: two burns to the
\* winner p1, p4 still in its slot, and no slot holds a burned player.
AddToBurnWitness ==
    \E game \in AllRounds :
        /\ ~game.u
        /\ game.placements = [first |-> "p1", second |-> "", third |-> "", fourth |-> "p4"]
        /\ Len(game.chay) = 2
        /\ game.chay[1].from = "p2" /\ game.chay[1].to = "p1"
        /\ game.chay[2].from = "p3" /\ game.chay[2].to = "p1"

\* C18: after dropping player X on slot S, S holds X, no other slot holds X
\* and the other slots keep their occupants; every burn entry that remains
\* has to = X if S is first, and keeps its to field otherwise.
AssignToSlot ==
    \A game \in AllRounds, S \in PlacementKey, X \in IdSet :
        LET after == dropPlacement(game, S, X)
        IN  /\ after.placements[S] = X
            /\ \A key \in PlacementKey \ {S} :
                  /\ after.placements[key] # X
                  /\ game.placements[key] # X =>
                        after.placements[key] = game.placements[key]
            /\ \A i \in DOMAIN after.chay :
                  IF S = "first" THEN after.chay[i].to = X
                  ELSE \E j \in DOMAIN game.chay :
                          /\ game.chay[j].id = after.chay[i].id
                          /\ game.chay[j].to = after.chay[i].to

\* C18 witness: the winner p1 was dropped on slot second: it left slot
\* first, and the burn of p2 kept its to field.
AssignToSlotWitness ==
    \E game \in AllRounds :
        /\ ~game.u
        /\ game.placements = [first |-> "", second |-> "p1", third |-> "p3", fourth |-> ""]
        /\ Len(game.chay) = 1
        /\ game.chay[1].from = "p2" /\ game.chay[1].to = "p1"

(***************************************************************************)
(* Properties of the session store.                                        *)
(***************************************************************************)
\* C19: every session has the four players p1..p4 in that order; a rename
\* changes name fields only, a blank input keeping the old name, and leaves
\* the session's rounds, its cursor and every round's deltas, total and
\* warnings as they were.
PlayersFixed ==
    [][/\ \A i \in DOMAIN sessions' :
             [k \in DOMAIN sessions'[i].players |-> sessions'[i].players[k].id] = PlayerIds
       /\ \A i \in DOMAIN sessions, e \in NameVectors, k \in 1..4 :
             renamePlayers(sessions[i], e).players[k].name =
                 IF e[k] \in {"", " "} THEN sessions[i].players[k].name ELSE "An"
       /\ \A i \in DOMAIN sessions :
             (i \in DOMAIN sessions' /\ sessions'[i].players # sessions[i].players) =>
                 /\ sessions'[i].games = sessions[i].games
                 /\ sessions'[i].currentGameIndex = sessions[i].currentGameIndex
                 /\ \A k \in 1..4 : sessions'[i].players[k].name \notin {"", " "}
                 /\ \A j \in DOMAIN sessions[i].games :
                       computeGamePoints(sessions'[i].games[j], sessions'[i].players)
                           = computeGamePoints(sessions[i].games[j], sessions[i].players)
                 /\ sessions[i].id = activeSessionId => gameSummaries' = gameSummaries
      ]_vars

\* C19 witness: the second player of a session renamed after a round was
\* scored; the ids and the round are as before.
PlayersFixedWitness ==
    \E i \in DOMAIN sessions :
        /\ sessions[i].players[2] = [id |-> "p2", name |-> "An"]
        /\ sessions[i].players[3].name = DefaultName(3)
        /\ sessions[i].games[1].u
        /\ sessions[i].games[1].placements.first = "p2"

\* an edit of the current round of the active session
RoundEdit ==
    \/ ToggleU
    \/ SelectWinner
    \/ DropOnPlacement
    \/ DropOnChay
    \/ ClearPlacement
    \/ RemoveChayPlayer
    \/ AddAnChot
    \/ SetAnChotFrom
    \/ SetAnChotTo
    \/ DeleteAnChot

\* C20: an edit of one round leaves every other round of its session, the
\* session's cursor and players, and every other session unchanged.
RoundOwnership ==
    [][RoundEdit =>
        /\ Len(sessions') = Len(sessions)
        /\ \A i \in DOMAIN sessions :
              IF sessions[i].id # activeSessionId THEN sessions'[i] = sessions[i]
              ELSE /\ sessions'[i].id = sessions[i].id
                   /\ sessions'[i].name = sessions[i].name
                   /\ sessions'[i].players = sessions[i].players
                   /\ sessions'[i].currentGameIndex = sessions[i].currentGameIndex
                   /\ Len(sessions'[i].games) = Len(sessions[i].games)
                   /\ \A j \in DOMAIN sessions[i].games :
                         /\ sessions'[i].games[j].id = sessions[i].games[j].id
                         /\ j # sessions[i].currentGameIndex + 1 =>
                               sessions'[i].games[j] = sessions[i].games[j]
      ]_vars

\* C20 witness: a session whose first round has a winner and whose second
\* round, the current one, was switched to self-win.
RoundOwnershipWitness ==
    \E i \in DOMAIN sessions :
        /\ sessions[i].id = activeSessionId
        /\ Len(sessions[i].games) = 2
        /\ sessions[i].currentGameIndex = 1
        /\ sessions[i].games[1].placements.first = "p1" /\ ~sessions[i].games[1].u
        /\ sessions[i].games[2].placements.first = "" /\ sessions[i].games[2].u


(***************************************************************************)
(* The page from its mount on: the load from storage, the effects after    *)
(* each render, a storage that starts and stops accepting writes, and some *)
(* of the handlers (lines 348-421, 822-833, 1310-1341).                    *)
(***************************************************************************)
\* a session as the page wrote it in an earlier visit
StoredSession == createSession(1, <<"", "", "", "">>, 1)

\* the items the page may find: none, a text that is not JSON, the state of
\* an earlier visit, a state whose active session is not in the collection,
\* and an object with the screen alone
InitialItems ==
    {NoItem,
     CorruptedItem,
     stringify(Memory(<<StoredSession>>, 1, "session")),
     stringify(Memory(<<StoredSession>>, 2, "session")),
     stringify([screen |-> "summary"])}

\* lines 333-341: the first render, before any effect has run
PersistInit ==
    /\ sessions = <<>>
    /\ screen = "home"
    /\ activeSessionId = 0
    /\ gameSummaries = <<>>
    /\ sessionTotals = <<>>
    /\ funStats = funStatsOf(<<>>)
    /\ steps = 0
    /\ hydrated = FALSE
    /\ storageFails \in BOOLEAN
    /\ storage \in InitialItems
    /\ saveAttempt = NoItem
    /\ renderedGame = <<>>
    /\ EngineIdle

\* lines 348-401: the effects after the first render, each reading the
\* state of that render (hydrated = false, so that the consistency effect
\* returns at line 381), and the render that follows
LoadEffect ==
    /\ ~hydrated
    /\ LET memory == Memory(sessions, activeSessionId, screen)
           loaded == loadEffect(storage, memory)
           saved == saveEffect([item |-> storage, attempt |-> saveAttempt],
                               memory, hydrated, storageFails)
       IN  /\ sessions' = loaded.sessions
           /\ activeSessionId' = loaded.activeSessionId
           /\ screen' = loaded.screen
           /\ storage' = saved.item
           /\ saveAttempt' = saved.attempt
    /\ hydrated' = TRUE
    /\ Render
    /\ UNCHANGED <<storageFails, steps>>
    /\ UNCHANGED engVars

\* the effects of the last render have not run yet: the state it rendered
\* was not handed to setItem
EffectsPending ==
    /\ hydrated
    /\ saveAttempt # stringify(Memory(sessions, activeSessionId, screen))

\* lines 379-401: the effects after a render of the hydrated page, each
\* reading the state of that render, and the render that follows
HydratedEffects ==
    /\ EffectsPending
    /\ LET memory == Memory(sessions, activeSessionId, screen)
           fixed == consistencyEffect(memory, hydrated)
           saved == saveEffect([item |-> storage, attempt |-> saveAttempt],
                               memory, hydrated, storageFails)
       IN  /\ sessions' = fixed.sessions
           /\ activeSessionId' = fixed.activeSessionId
           /\ screen' = fixed.screen
           /\ storage' = saved.item
           /\ saveAttempt' = saved.attempt
    /\ Render
    /\ UNCHANGED <<hydrated, storageFails, steps>>
    /\ UNCHANGED engVars

\* the browser: the storage fills up or is freed, is denied or allowed
StorageChanges ==
    /\ storageFails' = ~storageFails
    /\ UNCHANGED <<sessions, screen, activeSessionId, gameSummaries,
                   sessionTotals, funStats, steps, hydrated, storage,
                   saveAttempt, renderedGame>>
    /\ UNCHANGED engVars

\* the page takes an event once the effects of its last render have run
Interactive == hydrated /\ ~EffectsPending

\* lines 409-416
MountedCreateNewSession ==
    /\ Interactive
    /\ CreateNewSession

\* lines 418-421
MountedOpenSession ==
    /\ Interactive
    /\ OpenSession

\* lines 1310-1341
MountedMenuGo ==
    /\ Interactive
    /\ MenuGo

\* lines 822-833
MountedToggleU ==
    /\ Interactive
    /\ ToggleU

PersistNext ==
    \/ LoadEffect
    \/ HydratedEffects
    \/ StorageChanges
    \/ MountedCreateNewSession
    \/ MountedOpenSession
    \/ MountedMenuGo
    \/ MountedToggleU

\* React runs the effects of every render it commits
SpecPersist ==
    /\ PersistInit
    /\ [][PersistNext]_vars
    /\ WF_vars(LoadEffect)
    /\ WF_vars(HydratedEffects)

\* the state the save effect writes
Current == Memory(sessions, activeSessionId, screen)

\* a step in which a failing save is swallowed
SwallowedStep ==
    /\ (hydrated /\ storageFails /\ steps' # steps) =>
          (/\ storage' = storage
           /\ (Current' # Current => saveAttempt' = stringify(Current'))
           /\ Interactive')
    /\ (storageFails' # storageFails) =>
          (/\ storage' = storage
           /\ saveAttempt' = saveAttempt
           /\ Current' = Current)
    /\ (Interactive /\ storage # saveAttempt /\ Current' # Current) =>
          (/\ saveAttempt' = stringify(Current')
           /\ (~storageFails => storage' = stringify(Current')))

\* after a failed save the handlers are enabled as ever
ReadyAfterFailure ==
    (Interactive /\ storage # saveAttempt) =>
        (/\ (ENABLED MountedCreateNewSession) <=>
               (screen = "home" /\ Len(sessions) < MaxSessions /\ steps < MaxSteps)
         /\ (ENABLED MountedToggleU) <=> (OnSessionScreen /\ steps < MaxSteps))

\* C21: while setItem throws, a handler's step writes nothing, has handed
\* the state the handler produced to setItem, and leaves the page hydrated
\* and ready for the next event with no effect pending; when the storage
\* changes nothing is written or attempted (no retry); and after a failed
\* save the handlers are enabled as ever and the next change is handed to
\* setItem again, and written if setItem no longer throws.
SaveFailureSwallowed == [][SwallowedStep]_vars /\ []ReadyAfterFailure

\* C21 witness: a session was created while setItem threw: the page holds
\* it and shows it, the stored item is still the one of the mount, and the
\* state with the session is what was last handed to setItem.
SaveFailureWitness ==
    /\ hydrated /\ storageFails
    /\ Len(sessions) = 1 /\ screen = "session" /\ activeSessionId = 1
    /\ storage = stringify(Memory(<<>>, 0, "home"))
    /\ saveAttempt = stringify(Current)
    /\ steps = 1

\* a step that writes only what a hydrated render holds
HydratedSaveStep ==
    /\ (storage' # storage \/ saveAttempt' # saveAttempt) => hydrated
    /\ (storage' # storage) =>
          (/\ storage' \in {stringify(Current), stringify(Current')}
           /\ storage' = saveAttempt'
           /\ (/\ storage.kind = "json"
               /\ "sessions" \in DOMAIN storage.value
               /\ storage.value.sessions # <<>>)
              => storage'.value.sessions # <<>>)
    /\ (hydrated /\ steps' # steps /\ Current' # Current) =>
          (saveAttempt' = stringify(Current'))

\* C23: setItem is called and the item changes only in a step that starts
\* hydrated; an item holding sessions is never replaced by one holding
\* none; what is written is the state of the render whose effects ran;
\* every handler step that changes sessions, active session id or screen
\* hands the new state to setItem; the page always becomes hydrated, and
\* pending effects always run, after which the current state is the one
\* last handed to setItem.
NoSaveBeforeLoad ==
    /\ [][HydratedSaveStep]_vars
    /\ (~hydrated ~> hydrated)
    /\ (EffectsPending ~> (hydrated /\ saveAttempt = stringify(Current)))

\* C23 witness: the page found the session of an earlier visit, loaded and
\* saved it, and a second session created since has been saved with it.
NoSaveBeforeLoadWitness ==
    /\ hydrated
    /\ Len(sessions) = 2 /\ sessions[1] = StoredSession
    /\ storage = stringify(Current)
    /\ saveAttempt = storage

(***************************************************************************)
(* The round cursor (lines 523-562, 1228-1232, 1249-1277).                 *)
(***************************************************************************)
\* the cursor of a session points at one of its rounds
CursorInRange(session) ==
    /\ Len(session.games) >= 1
    /\ 0 <= session.currentGameIndex
    /\ session.currentGameIndex < Len(session.games)

\* a round nobody has edited
BlankRound(game) ==
    /\ ~game.u
    /\ \A key \in PlacementKey : game.placements[key] = ""
    /\ game.chay = <<>>
    /\ game.anChot = <<>>

\* the session with one more round and the cursor on its round number i
\* (0-based): the sessions one add beyond those the store holds
Grown(session, i) == [addGameTo(session) EXCEPT !.currentGameIndex = i]

\* the games of the session without the one at the 0-based index i
GamesWithout(session, i) ==
    [k \in 1..(Len(session.games) - 1) |->
        IF k <= i THEN session.games[k] ELSE session.games[k + 1]]

\* removing the current round of the session, as the remove button does
RemoveCurrent(session) ==
    removeGameFrom(session, session.games[session.currentGameIndex + 1].id)

\* C22: a session is created with exactly one blank round and cursor 0;
\* every session of the store has at least one round and a cursor within
\* its rounds, and add, remove, previous, next and reset keep it so;
\* removing the only round changes nothing, and removing the current round
\* at index i removes that round and moves the cursor to max(0, i - 1).
CursorInvariant ==
    /\ \A names \in NameVectors :
          LET created == createSession(Len(sessions) + 1, names, makeId(IdsOf(sessions)))
          IN  /\ Len(created.games) = 1
              /\ BlankRound(created.games[1])
              /\ created.currentGameIndex = 0
    /\ \A k \in DOMAIN sessions :
          LET session == sessions[k]
          IN  /\ CursorInRange(session)
              /\ CursorInRange(addGameTo(session))
              /\ CursorInRange(goPrev(session))
              /\ CursorInRange(goNext(session))
              /\ CursorInRange(resetGames(session))
              /\ BlankRound(resetGames(session).games[1])
              /\ CursorInRange(RemoveCurrent(session))
              /\ Len(session.games) = 1 => RemoveCurrent(session) = session
              /\ \A i \in 0..Len(session.games) :
                    LET grown == Grown(session, i)
                        after == RemoveCurrent(grown)
                    IN  /\ after.games = GamesWithout(grown, i)
                        /\ after.currentGameIndex = Max(0, i - 1)
                        /\ after.players = grown.players
                        /\ CursorInRange(after)

\* C22 witness: the store holds a session whose first round was removed
\* while it was the current one: the round created second (id 2) is the only
\* one left and the cursor is 0.
CursorWitness ==
    \E k \in DOMAIN sessions :
        /\ Len(sessions[k].games) = 1
        /\ sessions[k].games[1].id = 2
        /\ sessions[k].currentGameIndex = 0


(***************************************************************************)
(* The total of a round and the balance of a session (lines 209, 473).     *)
(***************************************************************************)
\* a session of the four players holding the round twice
SessionOfTwo(game) ==
    <<[createSession(1, <<"", "", "", "">>, 1) EXCEPT
          !.games = <<[game EXCEPT !.id = 1], [game EXCEPT !.id = 2]>>]>>

\* C25: for every round over the four player ids the deltas add up to 0
\* after every scoring step, with or without warnings, the engine returns
\* total = 0, and a session made of such rounds has balance 0.
TotalAlwaysZero ==
    /\ SumOver(engAcc.points, IdSet) = 0
    /\ engPc = "done" => engTotal = 0
    /\ engPc = "start" =>
          LET active == SessionOfTwo(engGame)
              summaries == gameSummariesOf(active)
          IN  /\ \A i \in DOMAIN summaries : summaries[i].total = 0
              /\ sessionBalanceOf(sessionTotalsOf(active, summaries)) = 0

\* C25 witness: a round scored with two warnings (a self-win without a
\* winner and a manual transfer from a player to themself) and with a valid
\* manual transfer that moved points.
TotalAlwaysZeroWitness ==
    /\ engPc = "done"
    /\ engGame.u /\ engGame.placements.first = ""
    /\ Len(engAcc.warnings) = 2
    /\ Len(engGame.anChot) = 2
    /\ engAcc.points["p1"] = 1
    /\ engTotal = 0


(***************************************************************************)
(* Burned players and ranked players (lines 564-603).                      *)
(***************************************************************************)
\* the players holding a ranking slot of the round
RankedSet(game) == {game.placements[key] : key \in PlacementKey} \ {""}

\* C26: in every round reached by round edits applied one at a time no
\* burned player holds a ranking slot and no player is the from of two burn
\* entries; assigning a player to any slot removes that player's burn entry
\* and no other.
BurnedRankedDisjoint ==
    \A game \in AllRounds :
        /\ BurnedSet(game) \cap RankedSet(game) = {}
        /\ \A i, j \in DOMAIN game.chay :
              game.chay[i].from = game.chay[j].from => i = j
        /\ \A i \in DOMAIN game.chay : game.chay[i].from \in IdSet
        /\ \A key \in PlacementKey, X \in IdSet :
              LET after == dropPlacement(game, key, X)
              IN  /\ after.placements[key] = X
                  /\ BurnedSet(after) = BurnedSet(game) \ {X}
                  /\ Len(after.chay) = Cardinality(BurnedSet(after))
                  /\ BurnedSet(after) \cap RankedSet(after) = {}

\* C26 witness: p2 was burned first and p3 second, then p2 was dropped on
\* slot third: the burn of p3 (id 2) is the only one left and p2 holds the
\* slot.
BurnedRankedWitness ==
    \E game \in AllRounds :
        /\ ~game.u
        /\ game.placements.first = "p1"
        /\ game.placements.third = "p2"
        /\ Len(game.chay) = 1
        /\ game.chay[1].from = "p3" /\ game.chay[1].id = 2


(***************************************************************************)
(* Events dispatched against one rendered round (lines 583-603, 624-641,   *)
(* 822-833): a handler reads currentGame from the render it was created    *)
(* in; its updater runs on the latest round.  The events are those of      *)
(* slot first, of the self-win checkbox and of the burn zone; steps counts *)
(* the events since the last render.                                       *)
(***************************************************************************)
\* lines 513-521: updateGame on the latest round, the render still to come
Unrendered(updated) ==
    /\ steps < MaxPending
    /\ steps' = steps + 1
    /\ UpdateCurrentGame(updated)
    /\ UNCHANGED <<gameSummaries, sessionTotals, funStats, hydrated, storage,
                   storageFails, saveAttempt, renderedGame>>
    /\ UNCHANGED engVars

\* lines 822-833: the checkbox shows the rendered flag, a click inverts it
StaleToggleU ==
    /\ OnSessionScreen
    /\ Unrendered(toggleU(CurrentGame, ~renderedGame[1].u))

\* lines 624-641 and 564-581: a chip dropped on the zone of slot first
StaleDropOnFirst ==
    /\ OnSessionScreen
    /\ ~renderedGame[1].u
    /\ \E playerId \in IdsOf(Active[1].players) :
          Unrendered(dropPlacement(CurrentGame, "first", playerId))

\* lines 624-641 and 583-603: a chip dropped on the burn zone; the guard of
\* line 584 reads the rendered round
StaleDropOnChay ==
    /\ OnSessionScreen
    /\ ~renderedGame[1].u
    /\ \E playerId \in IdsOf(Active[1].players) :
          /\ playerId # renderedGame[1].placements.first
          /\ Unrendered(handleDropChay(renderedGame[1], CurrentGame, playerId))

\* the render of the latest state and the effects after it
Rerender ==
    /\ steps > 0
    /\ steps' = 0
    /\ gameSummaries' = gameSummariesOf(Active)
    /\ sessionTotals' = sessionTotalsOf(Active, gameSummaries')
    /\ funStats' = funStatsOf(Active)
    /\ renderedGame' = renderedGameOf(sessions, activeSessionId)
    /\ LET saved == saveEffect([item |-> storage, attempt |-> saveAttempt],
                               Current, hydrated, storageFails)
       IN  storage' = saved.item /\ saveAttempt' = saved.attempt
    /\ UNCHANGED <<sessions, screen, activeSessionId, hydrated, storageFails>>
    /\ UNCHANGED engVars

StaleNext ==
    \/ StaleToggleU
    \/ StaleDropOnFirst
    \/ StaleDropOnChay
    \/ Rerender

SpecStale == EditorInit /\ [][StaleNext]_vars

\* C24 as stated: with events dispatched against one rendered round, no
\* burn entry is from the player in slot first and a self-win round has no
\* burn entry.
StaleSnapshotSafety ==
    \A game \in AllRounds :
        /\ \A i \in DOMAIN game.chay :
              game.placements.first # "" => game.chay[i].from # game.placements.first
        /\ game.u => game.chay = <<>>

====
